---- MODULE Spec2Model ----
(***************************************************************************)
(* baca: the reading session of src/baca/app.py (class Baca).              *)
(*                                                                         *)
(* A session is one Baca(ebook_path).run(): the UI loop (on_load, compose, *)
(* on_mount, then the message loop), the background loader thread          *)
(* (load_everything), the scroll watcher installed by on_mount, and the    *)
(* finally block of run() that writes the history record.  Sessions follow *)
(* one another over a persistent history store (Spec, FairSpec; QuietSpec  *)
(* is the same without scroll input).                                      *)
(*                                                                         *)
(* UISpec is a running session with its keys (on_key, dispatch_key of      *)
(* src/baca/utils/keys_parser.py), its windows and its message handlers;   *)
(* LayoutSpec opens the table of contents over every layout of the         *)
(* content; CliSpec is find_file of src/baca/utils/cli.py.                 *)
(*                                                                         *)
(* Python floats are modelled as exact fractions <<n, d>> in lowest terms. *)
(***************************************************************************)
EXTENDS Integers, Sequences, FiniteSets, TLC

(* ---------------------------- bounds -------------------------------- *)
\* largest max_scroll_y the screen reports
MaxScroll == 3
\* number of sessions run one after another
MaxSessions == 2
\* most sections of an ebook, and the greatest length of one
MaxSections == 2
MaxLen == 2
\* most entries of a table of contents
MaxToc == 1
\* most alerts left on screen
MaxAlerts == 2

\* the ebook files that can be opened
Paths == {"a.epub", "b.epub"}

VARIABLES
    store,            \* history store: sequence of rows [filepath, reading_progress]
    nsessions,        \* sessions constructed so far
    ebook_path,       \* self.ebook_path
    app,              \* where the UI is: none/init/loaded/composed/running/closing/done
    exit_reason,      \* why the UI loop ended: none/quit/error
    loader,           \* where load_everything is: idle/start/ebook/content/state/posted/failed
    has_ebook,        \* the attribute self.ebook exists
    ebook_state,      \* self.ebook_state: <<>> while unset, else <<record>>
    queue,            \* the app's message queue
    posted_early,     \* DoneLoading was enqueued before the first composition pass
    mounted,          \* the Content widget is mounted
    startup_loader,   \* the LoadingIndicator "startup-loader" is on screen
    scroll_y,         \* screen.scroll_y
    max_scroll_y,     \* screen.max_scroll_y
    reading_progress, \* self.reading_progress
    zero_div,         \* a ZeroDivisionError was raised in the watcher
    scroll_cmds,      \* the scroll_to commands issued by init_render
    outcome,          \* how run()'s finally block ended: none/saved/AttributeError/PersistenceError
    toc_entries,      \* len(list(self.ebook.get_toc()))
    content,          \* the Content widget: its section lengths and self.content.sections
    windows,          \* how many ToC / metadata / help / Alert widgets are mounted
    focused,          \* initial_focused_id of the ToC mounted last (0 is None)
    removals,         \* toc_window.remove callbacks waiting for the refresh
    event,            \* the key event on_key handled last
    handled,          \* the message handled last and how its handler ended
    cli,              \* the command line, the files and the history find_file sees
    cli_result        \* what find_file did with it

\* the state of a reading session
session == <<store, nsessions, ebook_path, app, exit_reason, loader, has_ebook,
             ebook_state, queue, posted_early, mounted, startup_loader, scroll_y,
             max_scroll_y, reading_progress, zero_div, scroll_cmds,
             outcome>>

\* the state of the windows and of the key and message handlers
ui == <<toc_entries, content, windows, focused, removals, event, handled>>

\* the state of the command line
shell == <<cli, cli_result>>

vars == <<store, nsessions, ebook_path, app, exit_reason, loader, has_ebook,
          ebook_state, queue, posted_early, mounted, startup_loader, scroll_y,
          max_scroll_y, reading_progress, zero_div, scroll_cmds,
          outcome, toc_entries, content, windows, focused, removals, event,
          handled, cli, cli_result>>

(* --------------------------- fractions ------------------------------ *)
RECURSIVE GCD(_, _)
GCD(a, b) == IF b = 0 THEN a ELSE GCD(b, a % b)

\* the float n / d, d > 0
Frac(n, d) == LET g == GCD(n, d) IN <<n \div g, d \div g>>

Zero == Frac(0, 1)

\* float * int
Mul(p, k) == Frac(p[1] * k, p[2])

\* p <= k for a float p and an int k
Leq(p, k) == p[1] <= k * p[2]

\* 0.0 <= p <= 1.0
InUnit(p) == 0 <= p[1] /\ p[1] <= p[2]

\* Python's new / max_scroll_y: raises ZeroDivisionError on a zero divisor
TrueDiv(y, m) ==
    IF m = 0 THEN [raised |-> TRUE, value |-> Zero]
    ELSE [raised |-> FALSE, value |-> Frac(y[1], y[2] * m)]

(* ------------------------- history store ---------------------------- *)
RowsOf(s, path) == {i \in 1..Len(s) : s[i].filepath = path}

\* ReadingHistory.get_or_create(filepath=..., defaults=...): keyed lookup; on a
\* miss a row with the defaults is created and persisted at once
get_or_create(s, path, defaults) ==
    IF RowsOf(s, path) # {}
    THEN LET i == CHOOSE j \in RowsOf(s, path) : \A k \in RowsOf(s, path) : j <= k
         IN [store |-> s, record |-> s[i], created |-> FALSE]
    ELSE LET r == [filepath |-> path, reading_progress |-> defaults]
         IN [store |-> Append(s, r), record |-> r, created |-> TRUE]

\* record.save(): upsert on filepath
save(s, r) ==
    IF RowsOf(s, r.filepath) # {}
    THEN [i \in 1..Len(s) |-> IF s[i].filepath = r.filepath THEN r ELSE s[i]]
    ELSE Append(s, r)

(* ------------------------- the scroll watcher ----------------------- *)
Clamp(y, m) == IF Leq(y, m) THEN (IF y[1] < 0 THEN Zero ELSE y) ELSE Frac(m, 1)

\* the watcher with a plausible slip: the guard on max_scroll_y is missing
new_watcher_unguarded(old, new, m, progress) ==
    LET q == TrueDiv(new, m)
    IN [progress |-> IF q.raised THEN progress ELSE q.value, raised |-> q.raised]

\* the watcher with a plausible slip: the old value is divided, not the new
new_watcher_old(old, new, m, progress) ==
    IF m # 0
    THEN LET q == TrueDiv(old, m)
         IN [progress |-> IF q.raised THEN progress ELSE q.value, raised |-> q.raised]
    ELSE [progress |-> progress, raised |-> FALSE]

\* new_watcher(old, new) installed by on_mount: the wrapped watch_scroll_y
new_watcher(old, new, m, progress) ==
    IF m # 0
    THEN LET q == TrueDiv(new, m)
         IN [progress |-> IF q.raised THEN progress ELSE q.value, raised |-> q.raised]
    ELSE [progress |-> progress, raised |-> FALSE]

\* screen.scroll_y = y with max_scroll_y = m: the value is clamped to [0, m]
\* and the watcher runs when the value changes
set_scroll_y(y, m) ==
    LET v == Clamp(y, m) IN
    IF v = scroll_y
    THEN UNCHANGED <<scroll_y, reading_progress, zero_div>>
    ELSE LET r == new_watcher(scroll_y, v, m, reading_progress) IN
         /\ scroll_y' = v
         /\ reading_progress' = r.progress
         /\ zero_div' = (zero_div \/ r.raised)

(* ------------------------------ Init -------------------------------- *)
NoWindows == [toc |-> 0, metadata |-> 0, help |-> 0, alert |-> 0]
NoEvent == [key |-> "", invoked |-> <<>>, awaited |-> FALSE, raised |-> "",
            prevented |-> FALSE, stopped |-> FALSE]
NoMessage == [msg |-> "", ok |-> TRUE, alerted |-> FALSE, had_toc |-> FALSE,
              known |-> FALSE, fail |-> "", y |-> Zero, progress |-> Zero]
NoContent == [lengths |-> <<>>, sections |-> <<>>, built |-> FALSE]

\* no window is mounted and no key or message has been handled
NoUI ==
    /\ toc_entries = 0
    /\ content = NoContent
    /\ windows = NoWindows
    /\ focused = 0
    /\ removals = 0
    /\ event = NoEvent
    /\ handled = NoMessage

\* find_file has not been called
NoShell ==
    /\ cli = <<>>
    /\ cli_result = <<>>

Init ==
    /\ store = <<>>
    /\ nsessions = 0
    /\ ebook_path = "a.epub"
    /\ app = "none"
    /\ exit_reason = "none"
    /\ loader = "idle"
    /\ has_ebook = FALSE
    /\ ebook_state = <<>>
    /\ queue = <<>>
    /\ posted_early = FALSE
    /\ mounted = FALSE
    /\ startup_loader = FALSE
    /\ scroll_y = Zero
    /\ max_scroll_y = 0
    /\ reading_progress = Zero
    /\ zero_div = FALSE
    /\ scroll_cmds = <<>>
    /\ outcome = "none"
    /\ NoUI
    /\ NoShell

(* ----------------------------- the UI ------------------------------- *)
\* Baca.__init__(ebook_path): a new session starts once the previous one is over
Baca_init(path) ==
    /\ app \in {"none", "done"}
    /\ nsessions < MaxSessions
    /\ nsessions' = nsessions + 1
    /\ ebook_path' = path
    /\ reading_progress' = Zero
    /\ app' = "init"
    /\ exit_reason' = "none"
    /\ loader' = "idle"
    /\ has_ebook' = FALSE
    /\ ebook_state' = <<>>
    /\ queue' = <<>>
    /\ posted_early' = FALSE
    /\ mounted' = FALSE
    /\ startup_loader' = FALSE
    /\ scroll_y' = Zero
    /\ max_scroll_y' = 0
    /\ zero_div' = FALSE
    /\ scroll_cmds' = <<>>
    /\ outcome' = "none"
    /\ UNCHANGED store
    /\ UNCHANGED <<ui, shell>>

\* on_load: hands load_everything to the executor
on_load ==
    /\ app = "init"
    /\ app' = "loaded"
    /\ loader' = "start"
    /\ UNCHANGED <<store, nsessions, ebook_path, exit_reason, has_ebook, ebook_state,
                   queue, posted_early, mounted, startup_loader, scroll_y,
                   max_scroll_y, reading_progress, zero_div,
                   scroll_cmds, outcome>>
    /\ UNCHANGED <<ui, shell>>

\* compose: the first composition pass puts the LoadingIndicator on screen
compose ==
    /\ app = "loaded"
    /\ app' = "composed"
    /\ startup_loader' = TRUE
    /\ UNCHANGED <<store, nsessions, ebook_path, exit_reason, loader, has_ebook,
                   ebook_state, queue, posted_early, mounted, scroll_y,
                   max_scroll_y, reading_progress, zero_div,
                   scroll_cmds, outcome>>
    /\ UNCHANGED <<ui, shell>>

\* on_mount: wraps screen.watch_scroll_y; the message loop starts after it
on_mount ==
    /\ app = "composed"
    /\ app' = "running"
    /\ UNCHANGED <<store, nsessions, ebook_path, exit_reason, loader, has_ebook,
                   ebook_state, queue, posted_early, mounted, startup_loader,
                   scroll_y, max_scroll_y, reading_progress, zero_div,
                   scroll_cmds, outcome>>
    /\ UNCHANGED <<ui, shell>>

(* ----------------------- the loader thread --------------------------- *)
\* load_everything, line 38: self.ebook = Epub(self.ebook_path)
load_everything_ebook ==
    /\ loader = "start"
    /\ \E ok \in BOOLEAN :
          IF ok THEN has_ebook' = TRUE /\ loader' = "ebook"
          ELSE has_ebook' = has_ebook /\ loader' = "failed"
    /\ UNCHANGED <<store, nsessions, ebook_path, app, exit_reason, ebook_state,
                   queue, posted_early, mounted, startup_loader, scroll_y,
                   max_scroll_y, reading_progress, zero_div,
                   scroll_cmds, outcome>>
    /\ UNCHANGED <<ui, shell>>

\* load_everything, line 39: content = Content(self.config, self.ebook)
load_everything_content ==
    /\ loader = "ebook"
    /\ \E ok \in BOOLEAN : loader' = IF ok THEN "content" ELSE "failed"
    /\ UNCHANGED <<store, nsessions, ebook_path, app, exit_reason, has_ebook,
                   ebook_state, queue, posted_early, mounted, startup_loader,
                   scroll_y, max_scroll_y, reading_progress, zero_div,
                   scroll_cmds, outcome>>
    /\ UNCHANGED <<ui, shell>>

\* the history lookup of load_everything with a plausible slip: a row is
\* created without looking for an existing one
history_create(s, path) ==
    LET r == [filepath |-> path, reading_progress |-> Zero]
    IN [store |-> Append(s, r), record |-> r, created |-> TRUE]

\* load_everything, lines 40-42: the lookup keyed by the ebook's path, with
\* defaults=dict(reading_progress=0.0)
history_lookup(s, path) == get_or_create(s, path, Zero)

\* load_everything, lines 40-42: self.ebook_state, _ = ReadingHistory.get_or_create(...)
load_everything_history ==
    /\ loader = "content"
    /\ \E ok \in BOOLEAN :
          IF ok
          THEN LET got == history_lookup(store, ebook_path) IN
               /\ store' = got.store
               /\ ebook_state' = <<got.record>>
               /\ loader' = "state"
          ELSE /\ loader' = "failed"
               /\ UNCHANGED <<store, ebook_state>>
    /\ UNCHANGED <<nsessions, ebook_path, app, exit_reason, has_ebook, queue,
                   posted_early, mounted, startup_loader, scroll_y, max_scroll_y,
                   reading_progress, zero_div, scroll_cmds, outcome>>
    /\ UNCHANGED <<ui, shell>>

\* line 49 with a plausible slip: the loader calls the callback directly and
\* mounts the content itself
load_everything_post_direct ==
    /\ loader = "state"
    /\ loader' = "posted"
    /\ mounted' = TRUE
    /\ queue' = IF app \in {"loaded", "composed", "running"}
                THEN Append(queue, "init_render") ELSE queue
    /\ posted_early' = (app = "loaded")
    /\ UNCHANGED <<store, nsessions, ebook_path, app, exit_reason, has_ebook,
                   ebook_state, startup_loader, scroll_y, max_scroll_y,
                   reading_progress, zero_div, scroll_cmds, outcome>>
    /\ UNCHANGED <<ui, shell>>

\* load_everything, line 49: self.post_message(DoneLoading(content)); a message
\* posted to an app that is shutting down is dropped
load_everything_post ==
    /\ loader = "state"
    /\ loader' = "posted"
    /\ queue' = IF app \in {"loaded", "composed", "running"}
                THEN Append(queue, "DoneLoading") ELSE queue
    /\ posted_early' = (app = "loaded")
    /\ UNCHANGED <<store, nsessions, ebook_path, app, exit_reason, has_ebook,
                   ebook_state, mounted, startup_loader, scroll_y, max_scroll_y,
                   reading_progress, zero_div, scroll_cmds, outcome>>
    /\ UNCHANGED <<ui, shell>>

(* ------------------------ the message loop -------------------------- *)
\* on_done_loading with a plausible slip: the callback is scheduled twice
on_done_loading_twice ==
    /\ app = "running"
    /\ queue # <<>> /\ Head(queue) = "DoneLoading"
    /\ mounted' = TRUE
    /\ queue' = Tail(queue) \o <<"init_render", "init_render">>
    /\ UNCHANGED <<store, nsessions, ebook_path, app, exit_reason, loader,
                   has_ebook, ebook_state, posted_early, startup_loader, scroll_y,
                   max_scroll_y, reading_progress, zero_div,
                   scroll_cmds, outcome>>
    /\ UNCHANGED <<ui, shell>>

\* on_done_loading with a plausible slip: the mount is not awaited, so the
\* callback is scheduled while the content is not mounted yet
on_done_loading_unawaited ==
    /\ app = "running"
    /\ queue # <<>> /\ Head(queue) = "DoneLoading"
    /\ queue' = Append(Tail(queue), "init_render")
    /\ UNCHANGED <<store, nsessions, ebook_path, app, exit_reason, loader,
                   has_ebook, ebook_state, posted_early, mounted, startup_loader,
                   scroll_y, max_scroll_y, reading_progress, zero_div,
                   scroll_cmds, outcome>>
    /\ UNCHANGED <<ui, shell>>

\* on_done_loading: await self.mount(event.content), then
\* self.call_after_refresh(init_render)
on_done_loading ==
    /\ app = "running"
    /\ queue # <<>> /\ Head(queue) = "DoneLoading"
    /\ mounted' = TRUE
    /\ queue' = Append(Tail(queue), "init_render")
    /\ UNCHANGED <<store, nsessions, ebook_path, app, exit_reason, loader,
                   has_ebook, ebook_state, posted_early, startup_loader, scroll_y,
                   max_scroll_y, reading_progress, zero_div,
                   scroll_cmds, outcome>>
    /\ UNCHANGED <<ui, shell>>

\* line 61 with a plausible slip: the tracker's own reading_progress is used
\* in place of the persisted one
historic_y_self(record, m) == Mul(reading_progress, m)

\* init_render, line 61: historic_y = self.ebook_state.reading_progress * self.screen.max_scroll_y
historic_y(record, m) == Mul(record.reading_progress, m)

\* init_render, lines 59-64: the position restore, run after the refresh
init_render ==
    /\ app = "running"
    /\ queue # <<>> /\ Head(queue) = "init_render"
    /\ LET y == historic_y(ebook_state[1], max_scroll_y) IN
          /\ scroll_cmds' = Append(scroll_cmds,
                 [y |-> y, speed |-> 0, animate |-> FALSE,
                  max |-> max_scroll_y, mounted |-> mounted])
          /\ set_scroll_y(y, max_scroll_y)
    /\ startup_loader' = FALSE
    /\ queue' = Tail(queue)
    /\ UNCHANGED <<store, nsessions, ebook_path, app, exit_reason, loader,
                   has_ebook, ebook_state, posted_early, mounted, max_scroll_y,
                   outcome>>
    /\ UNCHANGED <<ui, shell>>

\* a scroll-position change delivered by the screen (keys, mouse wheel,
\* animation): the new value lies in [0, max_scroll_y] and differs from the old
scroll_event(k) ==
    /\ app = "running"
    /\ k \in 0..max_scroll_y
    /\ Frac(k, 1) # scroll_y
    /\ set_scroll_y(Frac(k, 1), max_scroll_y)
    /\ UNCHANGED <<store, nsessions, ebook_path, app, exit_reason, loader,
                   has_ebook, ebook_state, queue, posted_early, mounted,
                   startup_loader, max_scroll_y, scroll_cmds, outcome>>
    /\ UNCHANGED <<ui, shell>>

\* the layout of the mounted content changes max_scroll_y (first layout,
\* terminal resize); scroll_y is validated against the new maximum.  While
\* only the startup loader of compose is on screen nothing overflows and
\* max_scroll_y stays 0
resize(m) ==
    /\ app = "running"
    /\ mounted
    /\ m \in 0..MaxScroll
    /\ m # max_scroll_y
    /\ max_scroll_y' = m
    /\ set_scroll_y(scroll_y, m)
    /\ UNCHANGED <<store, nsessions, ebook_path, app, exit_reason, loader,
                   has_ebook, ebook_state, queue, posted_early, mounted,
                   startup_loader, scroll_cmds, outcome>>
    /\ UNCHANGED <<ui, shell>>

\* the UI loop ends: the user quits (action_quit) or a handler raises
exit_ui(reason) ==
    /\ app = "running"
    /\ reason \in {"quit", "error"}
    /\ app' = "closing"
    /\ exit_reason' = reason
    /\ queue' = <<>>
    /\ UNCHANGED <<store, nsessions, ebook_path, loader, has_ebook, ebook_state,
                   posted_early, mounted, startup_loader, scroll_y, max_scroll_y,
                   reading_progress, zero_div, scroll_cmds, outcome>>
    /\ UNCHANGED <<ui, shell>>

\* run(), lines 178-185: the finally block, entered when super().run() is over;
\* the event loop shuts its executor down before that, so load_everything has
\* returned or raised
run_finally ==
    /\ app = "closing"
    /\ loader \in {"posted", "failed"}
    /\ app' = "done"
    /\ IF ~has_ebook \/ ebook_state = <<>>
       THEN outcome' = "AttributeError" /\ store' = store
       ELSE \E ok \in BOOLEAN :
               IF ok
               THEN /\ store' = save(store, [ebook_state[1] EXCEPT
                                       !.reading_progress = reading_progress])
                    /\ outcome' = "saved"
               ELSE outcome' = "PersistenceError" /\ store' = store
    /\ UNCHANGED <<nsessions, ebook_path, exit_reason, loader, has_ebook,
                   ebook_state, queue, posted_early, mounted, startup_loader,
                   scroll_y, max_scroll_y, reading_progress, zero_div,
                   scroll_cmds>>
    /\ UNCHANGED <<ui, shell>>

(* --------------------------- specification -------------------------- *)
Loader ==
    \/ load_everything_ebook
    \/ load_everything_content
    \/ load_everything_history
    \/ load_everything_post

UI ==
    \/ on_load
    \/ compose
    \/ on_mount
    \/ on_done_loading
    \/ init_render
    \/ run_finally

Next ==
    \/ \E path \in Paths : Baca_init(path)
    \/ on_load
    \/ compose
    \/ on_mount
    \/ load_everything_ebook
    \/ load_everything_content
    \/ load_everything_history
    \/ load_everything_post
    \/ on_done_loading
    \/ init_render
    \/ \E k \in 0..MaxScroll : scroll_event(k)
    \/ \E m \in 0..MaxScroll : resize(m)
    \/ \E reason \in {"quit", "error"} : exit_ui(reason)
    \/ run_finally

Spec == Init /\ [][Next]_vars

\* the UI loop keeps handling what is queued and the executor thread keeps
\* running; nothing obliges the user to scroll, resize, quit or open a book
FairSpec == Spec /\ WF_vars(UI) /\ WF_vars(Loader)

(* ------------------------ the tracker's states ----------------------- *)
InSession == app \in {"init", "loaded", "composed", "running"}

\* the first composition pass is over
Composed == app \in {"composed", "running", "closing", "done"}

\* Loading: the position restore has not been issued yet; Active: it has
Loading == InSession /\ scroll_cmds = <<>>
Active == scroll_cmds # <<>>

\* init_render has run: it removed the startup loader that compose had put up
InitRenderRan == Composed /\ ~startup_loader

\* the rows of the store are fractions p with 0 <= p <= 1
One == Frac(1, 1)

(* ------------------------------ C1 ---------------------------------- *)
\* a scroll-position change is observed in this step (the watcher runs exactly
\* when screen.scroll_y changes within a session)
ScrollObserved == InSession /\ app' = app /\ scroll_y' # scroll_y

\* C1: a scroll-position change with new value new_y observed while
\* max_scroll_y # 0 sets reading_progress to new_y / max_scroll_y; one observed
\* while max_scroll_y = 0 leaves reading_progress at its previous value, and no
\* division by zero is attempted.
C1_ScrollSetsProgress ==
    /\ [](~zero_div)
    /\ [][ScrollObserved =>
             IF max_scroll_y' # 0
             THEN reading_progress'[1] * scroll_y'[2] * max_scroll_y'
                    = scroll_y'[1] * reading_progress'[2]
             ELSE reading_progress' = reading_progress]_vars

\* a scroll change to 0 was observed with max_scroll_y = 0, and the progress of
\* an earlier change observed with max_scroll_y # 0 has been kept
C1_Witness ==
    /\ app = "running"
    /\ max_scroll_y = 0
    /\ scroll_y = Zero
    /\ reading_progress # Zero

(* ------------------------------ C2 ---------------------------------- *)
\* C2 (as claimed): at most one position-restore scroll-to command per session,
\* non-animated, issued only after the content is mounted; and in every session
\* whose loading completed it has been issued exactly once when the session is
\* over.
C2_RestoreExactlyOnce ==
    /\ Len(scroll_cmds) <= 1
    /\ \A i \in DOMAIN scroll_cmds : ~scroll_cmds[i].animate /\ scroll_cmds[i].mounted
    /\ (app = "done" /\ loader = "posted") => Len(scroll_cmds) = 1

\* C2 (amended): at most one position-restore scroll-to command per session,
\* non-animated (speed 0), issued only after the content is mounted; it has been
\* issued exactly once in every session whose after-refresh callback has run,
\* and a session that ended before that callback has issued none.
C2_RestoreOnceAfterRefresh ==
    /\ Len(scroll_cmds) <= 1
    /\ \A i \in DOMAIN scroll_cmds :
          /\ ~scroll_cmds[i].animate
          /\ scroll_cmds[i].speed = 0
          /\ scroll_cmds[i].mounted
    /\ InitRenderRan => Len(scroll_cmds) = 1
    /\ (Composed /\ ~InitRenderRan) => Len(scroll_cmds) = 0

\* a session whose loading completed is over and has issued its one restore
C2_Witness ==
    /\ app = "done"
    /\ loader = "posted"
    /\ Len(scroll_cmds) = 1
    /\ ~scroll_cmds[1].animate

(* ------------------------------ C3 ---------------------------------- *)
\* C3: the coordinate of the restore command equals the persisted
\* reading_progress of the opened book times max_scroll_y as read at the moment
\* of the restore; with max_scroll_y = 200 and persisted progress 0.25 it is 50.
C3_RestoreCoordinate ==
    /\ \A i \in DOMAIN scroll_cmds :
          InSession =>
             /\ RowsOf(store, ebook_path) # {}
             /\ \A r \in RowsOf(store, ebook_path) :
                   scroll_cmds[i].y[1] * store[r].reading_progress[2]
                     = store[r].reading_progress[1] * scroll_cmds[i].max * scroll_cmds[i].y[2]
    /\ historic_y([filepath |-> "a.epub", reading_progress |-> Frac(25, 100)], 200)
          = Frac(50, 1)

\* a restore to a coordinate strictly between 0 and max_scroll_y from a
\* persisted progress strictly between 0.0 and 1.0
C3_Witness ==
    /\ InSession
    /\ scroll_cmds # <<>>
    /\ scroll_cmds[1].y[1] > 0
    /\ scroll_cmds[1].y # Frac(scroll_cmds[1].max, 1)
    /\ \E r \in RowsOf(store, ebook_path) : store[r].reading_progress \notin {Zero, One}

(* ------------------------------ C4 ---------------------------------- *)
\* C4: round trip across sessions: when a session on file path f has ended
\* while the tracker's reading_progress was p, the record of f is saved with
\* reading_progress = p; and the record a session has fetched from
\* get_or_create carries the progress stored for its path, which is the
\* fraction its position restore uses.
C4_RoundTrip ==
    /\ app = "done" =>
          /\ RowsOf(store, ebook_path) # {}
          /\ \A r \in RowsOf(store, ebook_path) :
                store[r].reading_progress = reading_progress
    /\ (InSession /\ ebook_state # <<>>) =>
          /\ \E r \in RowsOf(store, ebook_path) : store[r] = ebook_state[1]
          /\ \A i \in DOMAIN scroll_cmds :
                scroll_cmds[i].y = Mul(ebook_state[1].reading_progress, scroll_cmds[i].max)

(* ------------------------------ C5 ---------------------------------- *)
\* C5: however a session ends, the final save of the history record has run to
\* its end before run() is over (a save that ran and reported its own failure
\* counts as run; the claim asks for no less).
C5_SaveBeforeReturn ==
    app = "done" => outcome \in {"saved", "PersistenceError"}

(* ------------------------------ C6 ---------------------------------- *)
\* C6: however early the loader finishes, the loaded content is mounted only
\* after the UI has finished its first composition pass: the loader only
\* enqueues the loading-complete message, and the content is mounted by that
\* message's handler on the UI loop, after composition.
C6_MountAfterCompose ==
    /\ [](mounted => (Composed /\ loader = "posted"
                        /\ \A i \in DOMAIN queue : queue[i] # "DoneLoading"))
    /\ [][(~mounted /\ mounted') =>
             (app = "running" /\ queue # <<>> /\ Head(queue) = "DoneLoading"
                /\ loader' = loader)]_vars

\* the loader finished before the first composition pass, and the content has
\* been mounted since
C6_Witness == mounted /\ posted_early

(* ------------------------------ C7 ---------------------------------- *)
\* C7: the history store holds at most one record per distinct file path: the
\* first open of a path creates and at once persists a record with
\* reading_progress = 0.0, and every later open of the path fetches that record
\* and creates none.
C7_OneRecordPerPath ==
    /\ [](\A path \in Paths : Cardinality(RowsOf(store, path)) <= 1)
    /\ [][(ebook_state = <<>> /\ ebook_state' # <<>>) =>
             IF RowsOf(store, ebook_path) = {}
             THEN /\ store' = Append(store, [filepath |-> ebook_path,
                                             reading_progress |-> Zero])
                  /\ ebook_state'[1] = store'[Len(store')]
             ELSE /\ store' = store
                  /\ \E r \in RowsOf(store, ebook_path) : ebook_state'[1] = store[r]]_vars

\* a later session on a path already in the store has fetched its record, with
\* the progress an earlier session saved, and the store still has that one row
C7_Witness ==
    /\ nsessions >= 2
    /\ ebook_state # <<>>
    /\ ebook_state[1].reading_progress # Zero
    /\ Len(store) = 1

(* ------------------------------ C8 ---------------------------------- *)
\* C8: the tracker's reading_progress and every reading_progress written to
\* the history store are fractions in [0.0, 1.0], also after max_scroll_y
\* changes between scroll events.
C8_ProgressInUnit ==
    /\ InUnit(reading_progress)
    /\ \A i \in DOMAIN store : InUnit(store[i].reading_progress)
    /\ ebook_state # <<>> => InUnit(ebook_state[1].reading_progress)

\* max_scroll_y shrank below scroll_y after the restore: the watcher saw the
\* clamped value and progress moved to 1.0, with a proper fraction on record
C8_Witness ==
    /\ scroll_cmds # <<>>
    /\ max_scroll_y # 0
    /\ max_scroll_y < scroll_cmds[1].max
    /\ scroll_y = Frac(max_scroll_y, 1)
    /\ reading_progress = One
    /\ \E i \in DOMAIN store : store[i].reading_progress \notin {Zero, One}

(* ------------------------------ C9 ---------------------------------- *)
\* C9 (as claimed): the tracker becomes Active only once the content is
\* mounted, and while it is Loading (the position restore not yet issued) a
\* scroll-position change leaves reading_progress unchanged.
C9_LoadingIgnoresScroll ==
    /\ [](Active => mounted)
    /\ [][(Loading /\ Loading') => reading_progress' = reading_progress]_vars

\* C9 (amended): the tracker becomes Active only once the content is mounted;
\* while it is Loading and the content is not mounted yet, no scroll-position
\* change reaches the watcher and reading_progress stays at its initial 0.0.
\* (Between the mount and the restore the watcher does accept a scroll change
\* observed with max_scroll_y # 0.)
C9_UnmountedIgnoresScroll ==
    /\ Active => mounted
    /\ ~mounted => (reading_progress = Zero /\ scroll_y = Zero /\ scroll_cmds = <<>>)

\* the tracker is Loading with the content mounted, and a scroll change has
\* been accepted; before the mount none was
C9_Witness ==
    /\ Loading
    /\ mounted
    /\ scroll_y # Zero
    /\ reading_progress # Zero

(* ------------------------------ C10 --------------------------------- *)
\* C10: a failure of the background load aborts startup: once load_everything
\* has raised, the session is ended as a startup failure and does not stay in
\* the Loading state for ever.
C10_LoadFailureAborts ==
    (loader = "failed" /\ InSession) ~> (app \in {"closing", "done"})

(* ===================== windows, keys and messages =================== *)
(* ------------------------ the layout of Content --------------------- *)
\* the section-length sequences of an ebook; a content without a heading
\* has no section
Lengths == UNION {[1..n -> 0..MaxLen] : n \in 0..MaxSections}

RECURSIVE Sum(_)
Sum(q) == IF q = <<>> THEN 0 ELSE Head(q) + Sum(Tail(q))

\* the layout with a plausible slip: a region starts one row after the
\* previous one ends
RECURSIVE build_gap(_, _, _)
build_gap(lengths, i, y) ==
    IF i > Len(lengths) THEN <<>>
    ELSE <<[id |-> i, y |-> y, y_end |-> y + lengths[i]]>>
         \o build_gap(lengths, i + 1, y + lengths[i] + 1)

\* VirtualLayoutMap.build: the regions of the sections from i on, the first
\* starting at y; each region ends where the next one starts
RECURSIVE build(_, _, _)
build(lengths, i, y) ==
    IF i > Len(lengths) THEN <<>>
    ELSE <<[id |-> i, y |-> y, y_end |-> y + lengths[i]]>>
         \o build(lengths, i + 1, y + lengths[i])

\* the sections before the first layout: a widget that is not laid out
\* reports the empty region at 0
unplaced(lengths) == [i \in 1..Len(lengths) |-> [id |-> i, y |-> 0, y_end |-> 0]]

\* y >= k for a float y and an int k
Geq(y, k) == y[1] >= k * y[2]

\* the scan with a plausible slip: > for >=
RECURSIVE initial_focused_id_strict(_, _, _, _)
initial_focused_id_strict(secs, i, y, id) ==
    IF i > Len(secs) THEN id
    ELSE IF Geq(y, secs[i].y) /\ ~Leq(y, secs[i].y)
         THEN initial_focused_id_strict(secs, i + 1, y, secs[i].id)
         ELSE id

\* the loop of action_open_toc over self.content.sections from i on: id is
\* initial_focused_id so far (0 is None); the loop breaks at the first section
\* that starts below scroll_y
RECURSIVE initial_focused_id(_, _, _, _)
initial_focused_id(secs, i, y, id) ==
    IF i > Len(secs) THEN id
    ELSE IF Geq(y, secs[i].y)
         THEN initial_focused_id(secs, i + 1, y, secs[i].id)
         ELSE id

(* ---------------------------- the windows --------------------------- *)
\* what a handler does: the windows and the ToC focus it leaves, the
\* exception it raises ("" is none), the scroll target it sets (<<>> is none)
\* and whether it asks the app to exit
Effect(w, f, exc, target, quit) ==
    [windows |-> w, focused |-> f, exc |-> exc, target |-> target, quit |-> quit]

NoEffect == Effect(windows, focused, "", <<>>, FALSE)

\* self.alert(message): one more Alert on screen
alert(w) == [w EXCEPT !.alert = @ + 1]

\* opening the help with a plausible slip: the window is mounted without
\* looking for one that is open
action_open_help_unchecked(w) == [w EXCEPT !.help = @ + 1]

\* action_open_help: mounts the help unless self.help_window is there
action_open_help(w) ==
    IF w.help = 0 THEN [w EXCEPT !.help = 1] ELSE w

\* action_open_metadata: self.ebook.get_meta() needs the ebook
action_open_metadata ==
    IF windows.metadata = 0
    THEN IF ~has_ebook
         THEN Effect(windows, focused, "AttributeError", <<>>, FALSE)
         ELSE Effect([windows EXCEPT !.metadata = 1], focused, "", <<>>, FALSE)
    ELSE NoEffect

\* action_open_toc: self.ebook.get_toc() needs the ebook, self.content needs
\* the mounted Content
action_open_toc ==
    IF windows.toc = 0
    THEN IF ~has_ebook
         THEN Effect(windows, focused, "AttributeError", <<>>, FALSE)
         ELSE IF toc_entries = 0
         THEN Effect(alert(windows), focused, "", <<>>, FALSE)
         ELSE IF ~mounted
         THEN Effect(windows, focused, "NoMatches", <<>>, FALSE)
         ELSE Effect([windows EXCEPT !.toc = 1],
                     initial_focused_id(content.sections, 1, scroll_y, 0),
                     "", <<>>, FALSE)
    ELSE NoEffect

(* ------------------------------ the keys ---------------------------- *)
\* float + int
Add(y, k) == Frac(y[1] + k * y[2], y[2])

\* the keys a user can press; "x" is bound to nothing
Keys == {"q", "j", "k", "u", "d", "g", "G", "t", "m", "h", "c", "s", "D", "x"}

\* the KeyMap list of on_key, in its order; the key "D" is in two maps
KeyMaps ==
    << [keys |-> {"q"}, action |-> "action_quit"],
       [keys |-> {"j"}, action |-> "action_scroll_down"],
       [keys |-> {"k"}, action |-> "action_scroll_up"],
       [keys |-> {"u"}, action |-> "action_page_up"],
       [keys |-> {"d"}, action |-> "action_page_down"],
       [keys |-> {"g"}, action |-> "action_scroll_home"],
       [keys |-> {"G"}, action |-> "action_scroll_end"],
       [keys |-> {"t"}, action |-> "action_open_toc"],
       [keys |-> {"m"}, action |-> "action_open_metadata"],
       [keys |-> {"h"}, action |-> "action_open_help"],
       [keys |-> {"c", "D"}, action |-> "action_toggle_dark"],
       [keys |-> {"s"}, action |-> "screenshot"],
       [keys |-> {"D"}, action |-> "log"] >>

\* the actions that are coroutine functions
Awaitable == {"action_quit", "action_open_toc", "action_open_metadata",
              "action_open_help"}

\* {k: m.action for m in maps for k in m.keys}.get(key): a later map
\* overrides an earlier one; "" is None
callback_of(maps, key) ==
    LET hits == {i \in DOMAIN maps : key \in maps[i].keys}
    IN IF hits = {} THEN ""
       ELSE maps[CHOOSE i \in hits : \A j \in hits : j <= i].action

\* a screen scroll action: SkipAction unless the screen can scroll
scroll_action(target) ==
    IF max_scroll_y = 0
    THEN Effect(windows, focused, "SkipAction", <<>>, FALSE)
    ELSE Effect(windows, focused, "", <<target>>, FALSE)

\* what calling (and awaiting) the callback does
call(cb) ==
    CASE cb = "action_quit" -> Effect(windows, focused, "", <<>>, TRUE)
      [] cb = "action_scroll_down" -> scroll_action(Add(scroll_y, 1))
      [] cb = "action_scroll_up" -> scroll_action(Add(scroll_y, -1))
      [] cb = "action_page_up" -> scroll_action(Add(scroll_y, -MaxScroll))
      [] cb = "action_page_down" -> scroll_action(Add(scroll_y, MaxScroll))
      [] cb = "action_scroll_home" -> scroll_action(Zero)
      [] cb = "action_scroll_end" -> scroll_action(Frac(max_scroll_y, 1))
      [] cb = "action_open_toc" -> action_open_toc
      [] cb = "action_open_metadata" -> action_open_metadata
      [] cb = "action_open_help" ->
            Effect(action_open_help(windows), focused, "", <<>>, FALSE)
      [] OTHER -> NoEffect

\* dispatch_key with a plausible slip: SkipAction is not caught
dispatch_key_uncaught(key, cb, exc) ==
    [key |-> key,
     invoked |-> IF cb = "" THEN <<>> ELSE <<cb>>,
     awaited |-> (cb \in Awaitable),
     raised |-> exc,
     prevented |-> (exc = ""),
     stopped |-> (exc = "")]

\* dispatch_key(maps, event): the callback of the key, if there is one, is
\* called and its awaitable result awaited; SkipAction is swallowed, any other
\* exception leaves the function; then the event is prevented and stopped
dispatch_key(key, cb, exc) ==
    [key |-> key,
     invoked |-> IF cb = "" THEN <<>> ELSE <<cb>>,
     awaited |-> (cb \in Awaitable),
     raised |-> exc,
     prevented |-> (exc \in {"", "SkipAction"}),
     stopped |-> (exc \in {"", "SkipAction"})]

\* an exception leaves a handler: the app exits with an error
Fatal(exc) == exc \notin {"", "SkipAction"}

\* what a handler's effect e does to the app and to the screen
Apply(e) ==
    /\ e.windows.alert <= MaxAlerts
    /\ windows' = e.windows
    /\ focused' = e.focused
    /\ IF Fatal(e.exc)
       THEN app' = "closing" /\ exit_reason' = "error"
       ELSE IF e.quit
       THEN app' = "closing" /\ exit_reason' = "quit"
       ELSE UNCHANGED <<app, exit_reason>>
    /\ IF e.target = <<>>
       THEN UNCHANGED <<scroll_y, reading_progress, zero_div>>
       ELSE set_scroll_y(e.target[1], max_scroll_y)
    /\ UNCHANGED <<store, nsessions, ebook_path, loader, has_ebook, ebook_state,
                   queue, posted_early, mounted, startup_loader, max_scroll_y,
                   scroll_cmds, outcome>>
    /\ UNCHANGED <<toc_entries, content, shell>>

\* on_key(event)
on_key(key) ==
    /\ app = "running"
    /\ LET cb == callback_of(KeyMaps, key)
           e == IF cb = "" THEN NoEffect ELSE call(cb)
       IN /\ Apply(e)
          /\ event' = dispatch_key(key, cb, e.exc)
    /\ handled' = NoMessage
    /\ UNCHANGED removals

(* ---------------------------- the messages -------------------------- *)
\* Content.scroll_to_section(id): the region of the section is looked up and
\* scrolled to; an id with no region raises UnresolvedTargetError
scroll_to_section(id) ==
    IF id \in 1..Len(content.sections)
    THEN Effect(windows, focused, "", <<Frac(content.sections[id].y, 1)>>, FALSE)
    ELSE Effect(windows, focused, "UnresolvedTargetError", <<>>, FALSE)

\* on_follow_this(message): scroll to the section, then have the ToC removed
\* after the refresh; self.toc_window is None when no ToC is mounted
on_follow_this(id) ==
    /\ app = "running"
    /\ mounted
    /\ LET s == scroll_to_section(id)
           e == IF Fatal(s.exc) THEN s
                ELSE IF windows.toc = 0
                THEN [s EXCEPT !.exc = "AttributeError"]
                ELSE s
       IN /\ Apply(e)
          /\ removals' = IF Fatal(e.exc) THEN removals ELSE 1
          /\ handled' = [msg |-> "FollowThis", ok |-> ~Fatal(e.exc),
                         alerted |-> (e.windows.alert > windows.alert),
                         had_toc |-> (windows.toc > 0),
                         known |-> (id \in 1..Len(content.sections)),
                         fail |-> "", y |-> scroll_y,
                         progress |-> reading_progress]
    /\ event' = NoEvent

\* the callback of call_after_refresh: self.toc_window.remove()
remove_toc ==
    /\ app = "running"
    /\ removals > 0
    /\ removals' = 0
    /\ windows' = [windows EXCEPT !.toc = 0]
    /\ UNCHANGED <<toc_entries, content, focused, event, handled>>
    /\ UNCHANGED <<session, shell>>

\* what can go wrong when an image is opened
ImageFailures == {"", "fetch", "write", "launch"}

\* on_open_this_image(message): the bytes are fetched and written to a
\* temporary file outside the try; only what xdg-open raises is caught
on_open_this_image(fail) ==
    /\ app = "running"
    /\ mounted
    /\ LET e == CASE fail = "fetch" -> Effect(windows, focused, "KeyError", <<>>, FALSE)
                  [] fail = "write" -> Effect(windows, focused, "OSError", <<>>, FALSE)
                  [] fail = "launch" -> Effect(alert(windows), focused, "", <<>>, FALSE)
                  [] OTHER -> NoEffect
       IN /\ Apply(e)
          /\ handled' = [msg |-> "OpenThisImage", ok |-> ~Fatal(e.exc),
                         alerted |-> (e.windows.alert > windows.alert),
                         had_toc |-> (windows.toc > 0), known |-> TRUE,
                         fail |-> fail, y |-> scroll_y,
                         progress |-> reading_progress]
    /\ event' = NoEvent
    /\ UNCHANGED removals

\* the kinds of window
Kinds == {"toc", "metadata", "help", "alert"}

\* the user closes a window of the kind; a ToC that is gone is not removed
\* a second time
dismiss(kind) ==
    /\ app = "running"
    /\ windows[kind] > 0
    /\ windows' = [windows EXCEPT ![kind] = @ - 1]
    /\ removals' = IF kind = "toc" THEN 0 ELSE removals
    /\ UNCHANGED <<toc_entries, content, focused, event, handled>>
    /\ UNCHANGED <<session, shell>>

\* the first layout of the mounted Content gives the sections their regions
refresh_layout ==
    /\ app = "running"
    /\ mounted
    /\ content' = [content EXCEPT !.sections = build(content.lengths, 1, 0),
                                  !.built = TRUE]
    /\ UNCHANGED <<toc_entries, windows, focused, removals, event, handled>>
    /\ UNCHANGED <<session, shell>>

\* a session that is running: either its content, with section lengths from
\* ls, is mounted and restored at progress 0.0 on a screen of height 0 or
\* MaxScroll, or (when loading is allowed) it is still loading
Running(ls, loading) ==
    /\ nsessions = 1
    /\ ebook_path = "a.epub"
    /\ app = "running"
    /\ exit_reason = "none"
    /\ queue = <<>>
    /\ posted_early = FALSE
    /\ scroll_y = Zero
    /\ reading_progress = Zero
    /\ zero_div = FALSE
    /\ outcome = "none"
    /\ \/ /\ store = <<[filepath |-> "a.epub", reading_progress |-> Zero]>>
          /\ loader = "posted"
          /\ has_ebook = TRUE
          /\ ebook_state = <<[filepath |-> "a.epub", reading_progress |-> Zero]>>
          /\ mounted = TRUE
          /\ startup_loader = FALSE
          /\ max_scroll_y \in {0, MaxScroll}
          /\ scroll_cmds = <<[y |-> Zero, speed |-> 0, animate |-> FALSE,
                              max |-> 0, mounted |-> TRUE]>>
          /\ toc_entries \in 0..MaxToc
          /\ \E l \in ls : content = [lengths |-> l, sections |-> unplaced(l),
                                      built |-> FALSE]
       \/ /\ loading
          /\ store = <<>>
          /\ loader = "start"
          /\ has_ebook = FALSE
          /\ ebook_state = <<>>
          /\ mounted = FALSE
          /\ startup_loader = TRUE
          /\ max_scroll_y = 0
          /\ scroll_cmds = <<>>
          /\ toc_entries = 0
          /\ content = NoContent
    /\ windows = NoWindows
    /\ focused = 0
    /\ removals = 0
    /\ event = NoEvent
    /\ handled = NoMessage
    /\ NoShell

\* an ebook of MaxSections sections of one row each
Book == [i \in 1..MaxSections |-> 1]

UIInit == Running({Book}, TRUE)

UINext ==
    \/ refresh_layout
    \/ \E key \in Keys : on_key(key)
    \/ \E id \in 1..(MaxSections + 1) : on_follow_this(id)
    \/ remove_toc
    \/ \E fail \in ImageFailures : on_open_this_image(fail)
    \/ \E kind \in Kinds : dismiss(kind)

UISpec == UIInit /\ [][UINext]_vars

(* ----------------- opening the ToC over every layout ---------------- *)
LayoutInit == Running(Lengths, FALSE)

LayoutNext ==
    \/ refresh_layout
    \/ \E key \in {"j", "k", "t"} : on_key(key)
    \/ dismiss("toc")

LayoutSpec == LayoutInit /\ [][LayoutNext]_vars

(* ------------------------------ C11 --------------------------------- *)
\* the id of the last section, over all of them, that starts at or above y
\* (0 when none does)
LastSectionAtOrAbove(secs, y) ==
    LET above == {i \in 1..Len(secs) : Geq(y, secs[i].y)}
    IN IF above = {} THEN 0
       ELSE secs[CHOOSE i \in above : \A j \in above : j <= i].id

\* a ToC is mounted in this step
TocOpened == windows.toc = 0 /\ windows'.toc = 1

\* C11: when the table of contents is opened at scroll position y, the id
\* chosen for pre-highlighting is that of the last section, in document order,
\* whose region starts at or above y, and it is None when no region does; the
\* early-exit scan gives what a scan of all the sections gives.
C11_TocContext ==
    [][TocOpened =>
          focused' = LastSectionAtOrAbove(content.sections, scroll_y)]_vars

\* a ToC was opened where the scan stopped before the last section, having
\* passed the first
C11_Witness ==
    /\ windows.toc = 1
    /\ event.key = "t"
    /\ focused # 0
    /\ focused < Len(content.sections)
    /\ Geq(scroll_y, content.sections[focused].y)
    /\ ~Geq(scroll_y, content.sections[focused + 1].y)

(* ------------------------------ C16 --------------------------------- *)
\* C16: for every non-empty sequence of section lengths the regions are
\* contiguous and in section order (the first starts at 0, each next one
\* starts where the one before ends, starts never decrease), their total
\* span is the sum of the lengths, and building again from the same lengths
\* gives the same regions.
C16_RegionsContiguous ==
    LET secs == content.sections
        n == Len(secs)
    IN (content.built /\ secs # <<>>) =>
          /\ n = Len(content.lengths)
          /\ secs[1].y = 0
          /\ \A i \in 1..n : /\ secs[i].id = i
                             /\ secs[i].y_end - secs[i].y = content.lengths[i]
          /\ \A i \in 1..(n - 1) : /\ secs[i + 1].y = secs[i].y_end
                                   /\ secs[i].y <= secs[i + 1].y
          /\ secs[n].y_end - secs[1].y = Sum(content.lengths)
          /\ build(content.lengths, 1, 0) = secs

\* the regions of two sections or more, not all of them empty, have been built
C16_Witness ==
    /\ content.built
    /\ Len(content.sections) >= 2
    /\ Sum(content.lengths) > 0
    /\ content.sections[2].y > 0

(* ------------------------------ C12 --------------------------------- *)
\* C12: navigating to a section id that the layout does not hold is
\* recoverable: the handler ends with a notice on screen, the scroll position
\* and reading_progress are as they were, and the session keeps running.
C12_AbsentTargetRecoverable ==
    (handled.msg = "FollowThis" /\ ~handled.known) =>
        /\ handled.ok
        /\ handled.alerted
        /\ app = "running"
        /\ scroll_y = handled.y
        /\ reading_progress = handled.progress

(* ------------------------------ C13 --------------------------------- *)
\* C13: whatever fails while an image is opened externally (fetching its
\* bytes, writing the temporary file, launching the opener), an alert is
\* shown and the session continues with the scroll position and
\* reading_progress as they were.
C13_ImageFailureRecoverable ==
    (handled.msg = "OpenThisImage" /\ handled.fail # "") =>
        /\ handled.ok
        /\ handled.alerted
        /\ app = "running"
        /\ scroll_y = handled.y
        /\ reading_progress = handled.progress

(* ------------------------------ C19 --------------------------------- *)
\* C19: a navigate-to-section message for a section of the layout is handled
\* without failure whether or not a ToC is mounted when it arrives, and once
\* the refresh that follows has run no ToC is mounted.
C19_FollowThisCompletes ==
    (handled.msg = "FollowThis" /\ handled.known) =>
        /\ handled.ok
        /\ app = "running"
        /\ removals = 0 => windows.toc = 0

(* ------------------------------ C14 --------------------------------- *)
\* C14: a failure of the history store never crashes the session: a failing
\* get_or_create does not end the load with an exception, and a failing save
\* does not leave run() as an exception.
C14_PersistenceFailureContained ==
    /\ [][~(loader = "content" /\ loader' = "failed")]_vars
    /\ [](outcome # "PersistenceError")

(* ========================= the command line ========================= *)
\* most positional arguments, and most rows of the reading history
MaxArgs == 2
MaxHistory == 1

\* the words a user can type; "1" and "2" parse as integers
Words == {"1", "2", "a.epub", "moby"}

\* int(arg): <<n>>, or <<>> for ValueError
ParseInt(arg) ==
    CASE arg = "1" -> <<1>>
      [] arg = "2" -> <<2>>
      [] OTHER -> <<>>

\* sequences over S of length lo..hi
SeqsOf(S, lo, hi) == UNION {[1..n -> S] : n \in lo..hi}

\* the reading histories, most recent first: no path twice
Histories ==
    {h \in SeqsOf(Paths, 0, MaxHistory) :
        \A i, j \in 1..Len(h) : i # j => h[i] # h[j]}

\* what find_file can be given: the parsed arguments, the words that name
\* existing files and the reading history
CliInputs ==
    [history : BOOLEAN, ebook : SeqsOf(Words, 0, MaxArgs),
     files : SUBSET {"1", "a.epub"}, rows : Histories]

\* get_last_read_ebook(): the most recent row's path, <<>> for None
get_last_read_ebook(rows) == IF rows = <<>> THEN <<>> ELSE <<rows[1]>>

\* get_nth_file_from_history(nth): the nth most recent row's path (1-based),
\* <<>> for None
get_nth_file_from_history(rows, nth) ==
    IF nth \in 1..Len(rows) THEN <<rows[nth]>> ELSE <<>>

\* a word of the pattern names the path or its title
Matches(pattern, path) ==
    \E i \in 1..Len(pattern) :
        \/ pattern[i] = path
        \/ pattern[i] = "moby" /\ path = "b.epub"

\* get_best_match_from_history(pattern): the most recent row the pattern
\* matches, <<>> for None
get_best_match_from_history(rows, pattern) ==
    LET hits == {i \in 1..Len(rows) : Matches(pattern, rows[i])}
    IN IF hits = {} THEN <<>>
       ELSE <<rows[CHOOSE i \in hits : \A j \in hits : i <= j]>>

\* find_file ends by returning a path or by sys.exit(code)
Return(route, path) == [route |-> route, path |-> <<path>>, exit |-> "none"]
Exit(route, code) == [route |-> route, path |-> <<>>, exit |-> code]

\* lines 114-119: the pattern route
by_pattern(c) ==
    LET found == get_best_match_from_history(c.rows, c.ebook)
    IN IF found = <<>> THEN Exit("pattern", "-1")
       ELSE Return("pattern", found[1])

\* find_file with a plausible slip: a history number with no row falls
\* through to the pattern match
find_file_fallthrough(c) ==
    IF c.history THEN Exit("history", "0")
    ELSE IF Len(c.ebook) = 0
    THEN LET last_read == get_last_read_ebook(c.rows)
         IN IF last_read # <<>> THEN Return("last", last_read[1])
            ELSE Exit("last", "-1")
    ELSE IF Len(c.ebook) = 1 /\ ParseInt(c.ebook[1]) # <<>>
    THEN LET found == get_nth_file_from_history(c.rows, ParseInt(c.ebook[1])[1])
         IN IF found = <<>> THEN by_pattern(c)
            ELSE Return("nth", found[1])
    ELSE IF Len(c.ebook) = 1 /\ c.ebook[1] \in c.files
    THEN Return("path", c.ebook[1])
    ELSE by_pattern(c)

\* find_file(): sys.exit raises SystemExit, which except ValueError does not
\* catch
find_file(c) ==
    IF c.history THEN Exit("history", "0")
    ELSE IF Len(c.ebook) = 0
    THEN LET last_read == get_last_read_ebook(c.rows)
         IN IF last_read # <<>> THEN Return("last", last_read[1])
            ELSE Exit("last", "-1")
    ELSE IF Len(c.ebook) = 1 /\ ParseInt(c.ebook[1]) # <<>>
    THEN LET found == get_nth_file_from_history(c.rows, ParseInt(c.ebook[1])[1])
         IN IF found = <<>> THEN Exit("nth", "-1")
            ELSE Return("nth", found[1])
    ELSE IF Len(c.ebook) = 1 /\ c.ebook[1] \in c.files
    THEN Return("path", c.ebook[1])
    ELSE by_pattern(c)

\* baca is started from the shell: find_file runs before any session
main ==
    /\ cli # <<>>
    /\ cli_result = <<>>
    /\ cli_result' = <<find_file(cli[1])>>
    /\ UNCHANGED <<cli, session, ui>>

CliInit ==
    /\ store = <<>>
    /\ nsessions = 0
    /\ ebook_path = "a.epub"
    /\ app = "none"
    /\ exit_reason = "none"
    /\ loader = "idle"
    /\ has_ebook = FALSE
    /\ ebook_state = <<>>
    /\ queue = <<>>
    /\ posted_early = FALSE
    /\ mounted = FALSE
    /\ startup_loader = FALSE
    /\ scroll_y = Zero
    /\ max_scroll_y = 0
    /\ reading_progress = Zero
    /\ zero_div = FALSE
    /\ scroll_cmds = <<>>
    /\ outcome = "none"
    /\ NoUI
    /\ \E c \in CliInputs : cli = <<c>>
    /\ cli_result = <<>>

CliNext == main

CliSpec == CliInit /\ [][CliNext]_vars

Bound == UNION {KeyMaps[i].keys : i \in DOMAIN KeyMaps}

C20_OneWindowPerKind ==
    /\ [](windows.toc <= 1 /\ windows.metadata <= 1 /\ windows.help <= 1)
    /\ [][(on_key("t") /\ windows.toc = 1) => windows' = windows]_vars
    /\ [][(on_key("m") /\ windows.metadata = 1) => windows' = windows]_vars
    /\ [][(on_key("h") /\ windows.help = 1) => windows' = windows]_vars
    /\ [][(on_key("t") /\ windows.toc = 0 /\ has_ebook /\ toc_entries = 0) =>
             windows' = [windows EXCEPT !.alert = @ + 1]]_vars

\* the ToC, the metadata and the help are open together, one of each, after
\* an open key
C20_Witness ==
    /\ windows.toc = 1
    /\ windows.metadata = 1
    /\ windows.help = 1
    /\ event.key \in {"t", "m", "h"}
    /\ event.prevented

(* =================== sessions without scroll input ================== *)
\* the history stores earlier sessions can have left: empty, or a row of
\* a.epub saved at scroll position k of MaxScroll
Stores ==
    {<<>>} \cup {<<[filepath |-> "a.epub", reading_progress |-> Frac(k, MaxScroll)]>> :
                    k \in 0..MaxScroll}

QuietInit ==
    /\ store \in Stores
    /\ nsessions = 0
    /\ ebook_path = "a.epub"
    /\ app = "none"
    /\ exit_reason = "none"
    /\ loader = "idle"
    /\ has_ebook = FALSE
    /\ ebook_state = <<>>
    /\ queue = <<>>
    /\ posted_early = FALSE
    /\ mounted = FALSE
    /\ startup_loader = FALSE
    /\ scroll_y = Zero
    /\ max_scroll_y = 0
    /\ reading_progress = Zero
    /\ zero_div = FALSE
    /\ scroll_cmds = <<>>
    /\ outcome = "none"
    /\ NoUI
    /\ NoShell

\* the first layout of the mounted content, before the position restore
first_layout(m) == scroll_cmds = <<>> /\ resize(m)

\* the user gives no scroll input and does not resize the terminal
QuietNext ==
    \/ \E path \in Paths : Baca_init(path)
    \/ on_load
    \/ compose
    \/ on_mount
    \/ load_everything_ebook
    \/ load_everything_content
    \/ load_everything_history
    \/ load_everything_post
    \/ on_done_loading
    \/ init_render
    \/ \E m \in 0..MaxScroll : first_layout(m)
    \/ \E reason \in {"quit", "error"} : exit_ui(reason)
    \/ run_finally

QuietSpec == QuietInit /\ [][QuietNext]_vars

(* ------------------------------ C18 --------------------------------- *)
\* C18: a session that ends without any scroll input leaves the stored
\* reading_progress of its book at the value the session fetched when it
\* began, also when it ends before the load or the restore is over, when
\* max_scroll_y is 0, and over repeated sessions.
C18_QuietSessionKeepsProgress ==
    (app = "done" /\ ebook_state # <<>>) =>
        \A r \in RowsOf(store, ebook_path) :
            store[r].reading_progress = ebook_state[1].reading_progress

====
